---- MODULE Spec2Model ----
(***************************************************************************)
(* A model of nvkm/models.py: the approximate-GP objects, the multi-output *)
(* NVKM model built from them, its fit loop, its sampling routine and its  *)
(* persistence (save / load_mo_model / load_io_model).                     *)
(*                                                                         *)
(* Conventions.                                                            *)
(*  - Real numbers are fixed-point integers with SCALE units per 1.0.      *)
(*  - Python lists are sequences, so every index is the code's index + 1:  *)
(*    output i of the code is i+1 here, order j of the code is j+1 here,   *)
(*    and the code's exponent / dimension j+1 is written j.                *)
(*  - An optional argument is <<>> for None and <<v>> for the value v.     *)
(*  - A PRNG key is the path of splits that produced it from its seed.     *)
(***************************************************************************)
EXTENDS Integers, Sequences, FiniteSets, Bags, TLC

VARIABLES
    cls,           \* the class of the model object
    self,          \* the model object's __dict__
    pc,            \* "constructed" | "loop" | "done": where the fit call is
    call,          \* the arguments of the running fit call
    key,           \* fit's local variable key
    it,            \* fit's loop counter i
    dpars_argnum,  \* fit's local list dpars_argnum
    bound_arg,     \* fit's local list bound_arg
    opt_state,     \* fit's local optimizer state
    evals,         \* history: the calls of grad_fn made by this fit call
    ret,           \* <<>> or <<value returned by fit>>
    outcome,       \* "None" | "Converged" | "Diverged" | "Raised"
    file,          \* <<>> or <<the mapping pickled by save>>
    loaded,        \* the result of the last load_*_model call
    sq,            \* the arguments of the call under study (sample, predict, ...)
    sres           \* <<>> or <<the value returned by that call>>

vars == <<cls, self, pc, call, key, it, dpars_argnum, bound_arg, opt_state,
          evals, ret, outcome, file, loaded, sq, sres>>

fitvars == <<pc, call, key, it, dpars_argnum, bound_arg, opt_state, evals,
             ret, outcome>>

(***************************************************************************)
(* Bounds of the model.                                                    *)
(***************************************************************************)
NumOutputs == 2
MaxOrder == 2
NumInducing == 2
DataLen == 2
MaxIts == 2
MaxNs == 2
MaxNt == 2
MaxM == 2
MaxD == 3
MaxBatch == 2

(***************************************************************************)
(* Fixed-point arithmetic.                                                 *)
(***************************************************************************)
SCALE == 10

Mul(a, b) == (a * b) \div SCALE

FSqrt(x) ==
    IF x <= 0 THEN 0
    ELSE CHOOSE r \in 0..(x + SCALE) :
            r * r <= x * SCALE /\ (r + 1) * (r + 1) > x * SCALE

RECURSIVE SumTo(_, _)
SumTo(f, n) == IF n = 0 THEN 0 ELSE f[n] + SumTo(f, n - 1)

None == <<>>
Some(v) == <<v>>

(***************************************************************************)
(* jax.random: keys, splitting and draws.                                  *)
(***************************************************************************)
PRNGKey(seed) == << <<0, seed>> >>

split(k, num) == [n \in 0..(num - 1) |-> Append(k, <<num, n>>)]

RECURSIVE KeyHash(_)
KeyHash(k) ==
    IF k = <<>> THEN 0
    ELSE LET last == k[Len(k)]
         IN  (3 * KeyHash(SubSeq(k, 1, Len(k) - 1)) + 2 * last[1] + last[2] + 1) % 7

\* key, _ = jrnd.split(key, 2), n times over
RECURSIVE KeyIter0(_, _)
KeyIter0(k, n) == IF n = 0 THEN k ELSE KeyIter0(split(k, 2)[0], n - 1)

\* _, key = jrnd.split(key, 2), n times over
RECURSIVE KeyIter1(_, _)
KeyIter1(k, n) == IF n = 0 THEN k ELSE KeyIter1(split(k, 2)[1], n - 1)

\* jrnd.choice(key, n, shape=(b,)): b indices into an array of length n, drawn
\* with replacement, so that an index can come more than once
choice(k, n, b) == [m \in 1..b |-> (KeyHash(Append(k, <<b, m>>)) % n) + 1]

(***************************************************************************)
(* utils.eq_kernel, settings.JITTER and jnp.linalg.cholesky.               *)
(***************************************************************************)
JITTER == 0

\* round(SCALE * exp(-q/2)) >= k  iff  1000 * q <= ExpThreshold[k]
ExpThreshold == <<5991, 3794, 2772, 2099, 1597, 1195, 861, 575, 325, 102>>

ExpNegHalf(d2, ls2) ==
    Cardinality({k \in 1..Len(ExpThreshold) : 1000 * d2 <= ExpThreshold[k] * ls2})

SqDist(t, tp) == SumTo([k \in 1..Len(t) |-> (t[k] - tp[k]) * (t[k] - tp[k])], Len(t))

eq_kernel(t, tp, amp, ls) == Mul(Mul(amp, amp), ExpNegHalf(SqDist(t, tp), ls * ls))

map2matrix(t, tp, amp, ls) ==
    [a \in 1..Len(t) |-> [b \in 1..Len(tp) |-> eq_kernel(t[a], tp[b], amp, ls)]]

cholesky(K) ==
    LET n == Len(K)
        L[a \in 1..n, b \in 1..n] ==
            IF b > a THEN 0
            ELSE LET s == SumTo([c \in 1..(b - 1) |-> Mul(L[a, c], L[b, c])], b - 1)
                 IN  IF a = b THEN FSqrt(K[a][a] - s)
                     ELSE IF L[b, b] = 0 THEN 0
                     ELSE ((K[a][b] - s) * SCALE) \div L[b, b]
    IN  [a \in 1..n |-> [b \in 1..n |-> L[a, b]]]

IsLowerTriangular(A) ==
    \A a \in 1..Len(A) : \A b \in 1..Len(A[a]) : b > a => A[a][b] = 0

(***************************************************************************)
(* EQApproxGP and VarEQApproxGP.                                           *)
(***************************************************************************)
N_BASIS_DEFAULT == 500
Q_FRAC_DEFAULT == 8

l2p(ls) == <<"l2p", ls>>

compute_covariances(z, noise, amp, ls) ==
    LET G == map2matrix(z, z, amp, ls)
        Kvv == [a \in 1..Len(z) |-> [b \in 1..Len(z) |->
                   G[a][b] + (IF a = b THEN noise + JITTER ELSE 0)]]
    IN  [Kvv |-> Kvv, LKvv |-> cholesky(Kvv)]

sample_basis(k, Ns, amp, ls, N_basis, D) ==
    LET skey == split(k, 3)
    IN  [thetas |-> [dist |-> "normal", key |-> skey[0],
                     shape |-> <<Ns, N_basis, D>>, ls |-> ls],
         betas  |-> [dist |-> "uniform", key |-> skey[1],
                     shape |-> <<Ns, N_basis>>],
         ws     |-> [dist |-> "normal", key |-> skey[2],
                     shape |-> <<Ns, N_basis>>, amp |-> amp, N_basis |-> N_basis]]

\* the random-feature sum  sum_b ws[s][b] * cos(thetas[s][b] . t + betas[s][b])
\* of sample s at the m-th query point: a value fixed by the three draws
FeatureSum(basis, m, s) ==
    Mul(basis.ws.amp,
        (((KeyHash(basis.thetas.key) + KeyHash(basis.betas.key)
           + KeyHash(basis.ws.key) + m + s) % 3) - 1) * SCALE)

\* EQApproxGP._sample with vs = None: the unconditioned prior sample, [Nt, Ns]
EQ_sample_prior(t, amp, ls, Ns, k, N_basis, D) ==
    LET basis == sample_basis(k, Ns, amp, ls, N_basis, D)
    IN  [m \in 1..Len(t) |-> [s \in 1..Ns |-> FeatureSum(basis, m, s)]]

flatten(A) == [m \in 1..Len(A) |-> A[m][1]]

VarEQApproxGP(z, mu, LC, N_basis, D, ls, amp, noise, q_frac, k) ==
    LET cov == compute_covariances(z, noise, amp, ls)
        fresh == mu = None /\ LC = None
    IN  [z |-> z, N_basis |-> N_basis, D |-> D, ls |-> ls, pr |-> l2p(ls),
         amp |-> amp, noise |-> noise, Kvv |-> cov.Kvv, LKvv |-> cov.LKvv,
         mu |-> IF fresh
                THEN flatten(EQ_sample_prior(z, amp, ls, 1, k, N_basis, D))
                ELSE mu[1],
         LC |-> IF fresh
                THEN [a \in 1..Len(z) |-> [b \in 1..Len(z) |->
                         Mul(cov.LKvv[a][b], q_frac)]]
                ELSE LC[1]]

(***************************************************************************)
(* The three model classes and what a caller hands their constructors.     *)
(***************************************************************************)
Classes == {"MOVarNVKM", "SepHomogMOVarNVKM", "IOMOVarNVKM"}

\* C[i]: the number of Volterra orders of output i
OrderCount == [i \in 1..NumOutputs |-> IF i = 1 THEN MaxOrder ELSE 1]

\* the input dimension construct_gps gives the filter GP at order j
FilterDim(c, j) == IF c = "SepHomogMOVarNVKM" THEN 1 ELSE j

ZCoord(m) == (2 * m - NumInducing - 1) * SCALE

ArgZu == [m \in 1..NumInducing |-> <<ZCoord(m)>>]

ArgZgs(c) ==
    [i \in 1..NumOutputs |-> [j \in 1..OrderCount[i] |->
        [m \in 1..NumInducing |-> [d \in 1..FilterDim(c, j) |-> ZCoord(m)]]]]

ArgXs == [i \in 1..NumOutputs |-> [n \in 1..DataLen |-> n * SCALE]]
ArgYs == [i \in 1..NumOutputs |-> [n \in 1..DataLen |-> 100 * i + n]]
ArgUData == <<[n \in 1..DataLen |-> n * SCALE], [n \in 1..DataLen |-> 50 + n]>>

ArgAmpgs == [i \in 1..NumOutputs |-> [j \in 1..OrderCount[i] |-> 20 + 2 * i + j]]
ArgLsgs  == [i \in 1..NumOutputs |-> [j \in 1..OrderCount[i] |-> 10 + i + j]]
ArgAlpha == [i \in 1..NumOutputs |-> [j \in 1..OrderCount[i] |-> 30 + i + j]]
ArgNoise == [i \in 1..NumOutputs |-> 3 + i]
ArgLsu == ZCoord(2) - ZCoord(1)
ArgAmpu == SCALE
ArgUNoise == SCALE - 3

\* the (key, q_frac) pairs a model is constructed with
ConstructInputs == {<<PRNGKey(1), 5>>}

(***************************************************************************)
(* MOVarNVKM.construct_gps and SepHomogMOVarNVKM.construct_gps.            *)
(***************************************************************************)
PairIndex(C, i, j) == SumTo([h \in 1..(i - 1) |-> C[h]], i - 1) + (j - 1)

PairCount(C) == SumTo(C, Len(C))

\* the value of the local variable key when the GP of pair (i, j) is built
GpKey(c, C, k, i, j) ==
    IF c = "SepHomogMOVarNVKM"
    THEN KeyIter0(k, 2 * PairIndex(C, i, j) + 1)
    ELSE KeyIter0(k, PairIndex(C, i, j))

\* the value of the local variable key when u_gp is built
UKey(c, C, k) ==
    IF c = "SepHomogMOVarNVKM"
    THEN KeyIter0(k, 2 * PairCount(C))
    ELSE KeyIter0(k, PairCount(C))

construct_gps(c, s, lsu, lsgs, k, q_frac, q_pars) ==
    [g_gps |->
        [i \in 1..s.O |-> [j \in 1..s.C[i] |->
            IF q_pars # None
            THEN VarEQApproxGP(s.zgs[i][j], Some(q_pars[1].mu_gs[i][j]),
                               Some(q_pars[1].LC_gs[i][j]), s.N_basis,
                               FilterDim(c, j), lsgs[i][j], SCALE, 0,
                               Q_FRAC_DEFAULT, PRNGKey(0))
            ELSE VarEQApproxGP(s.zgs[i][j], None, None, s.N_basis,
                               FilterDim(c, j), lsgs[i][j], SCALE, 0,
                               q_frac, GpKey(c, s.C, k, i, j))]],
     u_gp |-> VarEQApproxGP(s.zu, None, None, s.N_basis, 1, lsu, SCALE, 0,
                            Q_FRAC_DEFAULT, UKey(c, s.C, k))]

construct_q_pars(u_gp, g_gps) ==
    [mu_u  |-> u_gp.mu,
     LC_us |-> u_gp.LC,
     mu_gs |-> [i \in 1..Len(g_gps) |-> [j \in 1..Len(g_gps[i]) |-> g_gps[i][j].mu]],
     LC_gs |-> [i \in 1..Len(g_gps) |-> [j \in 1..Len(g_gps[i]) |-> g_gps[i][j].LC]]]

(***************************************************************************)
(* The constructors.  A call is a record of the arguments given, by        *)
(* parameter name; a name the signature does not have is a TypeError.      *)
(***************************************************************************)
InitParams == {"zgs", "zu", "data", "q_frac", "key", "likelihood", "N_basis",
               "ampgs", "noise", "alpha", "lsgs", "lsu", "ampu"}

Arg(args, name, default) == IF name \in DOMAIN args THEN args[name] ELSE default

Raise(e) == [error |-> e, obj |-> None]
Return(o) == [error |-> "", obj |-> Some(o)]

MOVarNVKM_init(c, args) ==
    IF ~(DOMAIN args \subseteq InitParams) \/ ~({"zgs", "zu", "data"} \subseteq DOMAIN args)
    THEN Raise("TypeError")
    ELSE IF Arg(args, "key", None) = None
    THEN Raise("TypeError")
    ELSE
    LET s0 == [zgs |-> args.zgs, zu |-> args.zu,
               N_basis |-> Arg(args, "N_basis", N_BASIS_DEFAULT),
               C |-> [i \in 1..Len(args.zgs) |-> Len(args.zgs[i])],
               O |-> Len(args.zgs)]
        lsgs == Arg(args, "lsgs", <<<<SCALE>>, <<SCALE>>>>)
        lsu == Arg(args, "lsu", SCALE)
        gps == construct_gps(c, s0, lsu, lsgs, args.key[1],
                             Arg(args, "q_frac", Q_FRAC_DEFAULT), None)
    IN  Return(
        [zgs |-> s0.zgs, vgs |-> None, zu |-> s0.zu, vu |-> None,
         N_basis |-> s0.N_basis, C |-> s0.C, O |-> s0.O,
         noise |-> Arg(args, "noise", <<SCALE, SCALE>>),
         alpha |-> Arg(args, "alpha", <<<<SCALE>>, <<SCALE>>>>),
         lsgs |-> lsgs, lsu |-> lsu,
         ampgs |-> Arg(args, "ampgs", <<<<SCALE>>, <<SCALE>>>>),
         ampu |-> Arg(args, "ampu", SCALE),
         u_gp |-> gps.u_gp, g_gps |-> gps.g_gps,
         data |-> args.data,
         likelihood |-> Arg(args, "likelihood", "gaussian_likelihood"),
         q_pars |-> construct_q_pars(gps.u_gp, gps.g_gps)])

IOInitParams == {"zgs", "zu", "u_data", "y_data", "u_noise"}

IOMOVarNVKM_init(args) ==
    IF ~({"zgs", "zu", "u_data", "y_data"} \subseteq DOMAIN args)
       \/ "data" \in DOMAIN args
    THEN Raise("TypeError")
    ELSE
    LET kw == DOMAIN args \ IOInitParams
        base == MOVarNVKM_init("IOMOVarNVKM",
                    [n \in kw \cup {"zgs", "zu", "data"} |->
                        IF n = "data" THEN None ELSE args[n]])
    IN  IF base.error # "" THEN base
        ELSE Return(
            [n \in DOMAIN base.obj[1] \cup {"u_noise"} |->
                IF n = "u_noise" THEN Arg(args, "u_noise", SCALE)
                ELSE IF n = "data" THEN <<args.u_data, args.y_data>>
                ELSE base.obj[1][n]])

\* the keyword arguments of a well-formed construction
HyperArgs(k, q_frac) ==
    [key |-> Some(k), q_frac |-> q_frac, ampgs |-> ArgAmpgs, noise |-> ArgNoise,
     alpha |-> ArgAlpha, lsgs |-> ArgLsgs, lsu |-> ArgLsu, ampu |-> ArgAmpu]

Merge(r1, r2) ==
    [n \in DOMAIN r1 \cup DOMAIN r2 |-> IF n \in DOMAIN r2 THEN r2[n] ELSE r1[n]]

Construct(c, k, q_frac) ==
    IF c = "IOMOVarNVKM"
    THEN IOMOVarNVKM_init(Merge(HyperArgs(k, q_frac),
             [zgs |-> ArgZgs(c), zu |-> ArgZu, u_data |-> ArgUData,
              y_data |-> <<ArgXs, ArgYs>>, u_noise |-> ArgUNoise]))
    ELSE MOVarNVKM_init(c, Merge(HyperArgs(k, q_frac),
             [zgs |-> ArgZgs(c), zu |-> ArgZu, data |-> <<ArgXs, ArgYs>>]))

(***************************************************************************)
(* Attribute lookup: what an object of each class has besides its __dict__.*)
(***************************************************************************)
Methods(c) ==
    {"__init__", "construct_gps", "construct_q_pars", "_KL", "_sample", "sample",
     "predict", "_compute_bound", "compute_bound", "fit", "save", "plot_samples",
     "plot_filters"}
    \cup (IF c = "IOMOVarNVKM" THEN {"_joint_sample", "joint_sample"} ELSE {})

HasAttr(c, s, name) == name \in DOMAIN s \/ name \in Methods(c)

\* the attributes of self that _compute_bound reads, in the order it reads them
BoundReads(c) ==
    IF c = "IOMOVarNVKM"
    THEN <<"_compute_p_pars", "O", "C", "q_of_v", "_joint_sample", "likelihood">>
    ELSE <<"_KL", "_sample", "O", "likelihood">>

\* the attributes of self that fit reads after its loop
FinishReads(c) ==
    IF c = "IOMOVarNVKM"
    THEN <<"_compute_p_pars", "set_G_gps", "set_u_gp">>
    ELSE <<"construct_gps">>

Raises(c, s, reads) == \E n \in 1..Len(reads) : ~HasAttr(c, s, reads[n])

(***************************************************************************)
(* Pytrees.  The tree structure of a fitted parameter is that of the       *)
(* _compute_bound argument it is: 1 q_pars, 2 ampgs, 3 lsgs, 4 ampu,       *)
(* 5 lsu, 6 noise, 7 u_noise.                                              *)
(***************************************************************************)
\* what is done with a pair of leaves: "full" gives the constant op.g,
\* "step" gives a - op.lr * b
Leaf(op, a, b) == IF op.kind = "full" THEN op.g ELSE a - op.lr * b

Tree2(argnum, x, y, op) ==
    CASE argnum = 1 ->
           [mu_u  |-> [m \in DOMAIN x.mu_u |-> Leaf(op, x.mu_u[m], y.mu_u[m])],
            LC_us |-> [a \in DOMAIN x.LC_us |-> [b \in DOMAIN x.LC_us[a] |->
                          Leaf(op, x.LC_us[a][b], y.LC_us[a][b])]],
            mu_gs |-> [i \in DOMAIN x.mu_gs |-> [j \in DOMAIN x.mu_gs[i] |->
                          [m \in DOMAIN x.mu_gs[i][j] |->
                              Leaf(op, x.mu_gs[i][j][m], y.mu_gs[i][j][m])]]],
            LC_gs |-> [i \in DOMAIN x.LC_gs |-> [j \in DOMAIN x.LC_gs[i] |->
                          [a \in DOMAIN x.LC_gs[i][j] |->
                              [b \in DOMAIN x.LC_gs[i][j][a] |->
                                  Leaf(op, x.LC_gs[i][j][a][b], y.LC_gs[i][j][a][b])]]]]]
      [] argnum \in {2, 3} ->
           [i \in DOMAIN x |-> [j \in DOMAIN x[i] |-> Leaf(op, x[i][j], y[i][j])]]
      [] argnum = 6 -> [i \in DOMAIN x |-> Leaf(op, x[i], y[i])]
      [] OTHER -> Leaf(op, x, y)

\* a tree of the structure of x with every leaf g
FullLike(argnum, x, g) == Tree2(argnum, x, x, [kind |-> "full", g |-> g])

(***************************************************************************)
(* jax.experimental.optimizers.adam, as fit uses it.  The update applied   *)
(* to a leaf is lr times a step direction; the direction is the input g of *)
(* the iteration (for the first step Adam's direction is the sign of the   *)
(* gradient).                                                              *)
(***************************************************************************)
opt_init(x0, treedef) == [x |-> x0, treedef |-> treedef]

get_params(state) == state.x

opt_update(lr, i, grads, state) ==
    [state EXCEPT !.x = [k \in DOMAIN state.x |->
        Tree2(state.treedef[k], state.x[k], grads[k], [kind |-> "step", lr |-> lr])]]

(***************************************************************************)
(* MOVarNVKM.fit and IOMOVarNVKM.fit.                                      *)
(***************************************************************************)
StdFitNames == {"q_pars", "ampgs", "lsgs", "ampu", "lsu", "noise"}

std_fit(c) ==
    IF c = "IOMOVarNVKM"
    THEN <<"q_pars", "ampgs", "lsgs", "ampu", "lsu", "noise", "u_noise">>
    ELSE <<"q_pars", "ampgs", "lsgs", "ampu", "lsu", "noise">>

std_argnums(c) == [i \in 1..Len(std_fit(c)) |-> i]

\* a fit that optimises every parameter, whatever dont_fit names
Excluded_Never(k, dont_fit) == FALSE

\* line 570: whether parameter k is left out of the optimisation
Excluded(k, dont_fit) == k \in dont_fit

RECURSIVE Filter(_, _, _)
Filter(seq, names, dont_fit) ==
    IF seq = <<>> THEN <<>>
    ELSE (IF ~Excluded(names[1], dont_fit) THEN <<seq[1]>> ELSE <<>>)
         \o Filter(Tail(seq), Tail(names), dont_fit)

\* lines 564-573: dpars_argnum
DparsArgnum(c, dont_fit) == Filter(std_argnums(c), std_fit(c), dont_fit)

\* lines 564-573: bound_arg
BoundArgInit(c, s) == [i \in 1..Len(std_fit(c)) |-> s[std_fit(c)[i]]]

\* lines 564-573: dpars_init
DparsInit(c, s, dont_fit) == Filter(BoundArgInit(c, s), std_fit(c), dont_fit)

\* an update that writes the optimized ampu to the place of lsu and the
\* optimized lsu to the place of ampu
BoundArgUpdate_Crossed(barg, argnum, state) ==
    [i \in 1..Len(barg) |->
        LET p == IF i = 4 THEN 5 ELSE IF i = 5 THEN 4 ELSE i
        IN  IF \E k \in 1..Len(argnum) : argnum[k] = p
            THEN get_params(state)[CHOOSE k \in 1..Len(argnum) : argnum[k] = p]
            ELSE barg[i]]

\* lines 599-600 and 613-614: bound_arg[ix - 1] = get_params(opt_state)[k]
BoundArgUpdate(barg, argnum, state) ==
    [i \in 1..Len(barg) |->
        IF \E k \in 1..Len(argnum) : argnum[k] = i
        THEN get_params(state)[CHOOSE k \in 1..Len(argnum) : argnum[k] = i]
        ELSE barg[i]]

Take(arr, idx) == [m \in 1..Len(idx) |-> arr[idx[m]]]

\* a minibatch whose x values are taken at indices drawn with skey, the other
\* half of the split that gives the key of the y indices
BatchMO_SeparateDraws(s, k, batch_size) ==
    LET xs == s.data[1]
        ys == s.data[2]
        kj(j) == KeyIter1(k, j + 1)
        idx(j) == choice(kj(j), Len(ys[j]), batch_size)
        xidx(j) == choice(split(KeyIter1(k, j), 2)[0], Len(ys[j]), batch_size)
    IN  [skey |-> split(KeyIter1(k, s.O), 2)[0],
         key  |-> KeyIter1(k, s.O + 1),
         idxkeys |-> [j \in 1..s.O |-> IF batch_size # 0 THEN Some(kj(j)) ELSE None],
         data |-> <<[j \in 1..s.O |-> IF batch_size # 0 THEN Take(xs[j], xidx(j))
                                       ELSE xs[j]],
                    [j \in 1..s.O |-> IF batch_size # 0 THEN Take(ys[j], idx(j))
                                       ELSE ys[j]]>>]

\* lines 585-597: the keys and the minibatch of one iteration of MOVarNVKM.fit
BatchMO(s, k, batch_size) ==
    LET xs == s.data[1]
        ys == s.data[2]
        kj(j) == KeyIter1(k, j + 1)
        idx(j) == choice(kj(j), Len(ys[j]), batch_size)
    IN  [skey |-> split(KeyIter1(k, s.O), 2)[0],
         key  |-> KeyIter1(k, s.O + 1),
         idxkeys |-> [j \in 1..s.O |-> IF batch_size # 0 THEN Some(kj(j)) ELSE None],
         data |-> <<[j \in 1..s.O |-> IF batch_size # 0 THEN Take(xs[j], idx(j))
                                       ELSE xs[j]],
                    [j \in 1..s.O |-> IF batch_size # 0 THEN Take(ys[j], idx(j))
                                       ELSE ys[j]]>>]

\* lines 974-995: the keys and the minibatch of one iteration of IOMOVarNVKM.fit
BatchIO(s, k, batch_size) ==
    LET xu == s.data[1][1]
        yu == s.data[1][2]
        xs == s.data[2][1]
        ys == s.data[2][2]
        sk == split(k, 2)
        bkeys == split(sk[1], s.O + 1)
        uidx == choice(bkeys[0], Len(yu), batch_size)
        idx(j) == choice(bkeys[j], Len(ys[j]), batch_size)
    IN  [skey |-> sk[0],
         key  |-> sk[1],
         idxkeys |-> [j \in 1..s.O |-> IF batch_size # 0 THEN Some(bkeys[j]) ELSE None],
         data |-> IF batch_size # 0
                  THEN << <<Take(xu, uidx), Take(yu, uidx)>>,
                          <<[j \in 1..s.O |-> Take(xs[j], idx(j))],
                            [j \in 1..s.O |-> Take(ys[j], idx(j))]>> >>
                  ELSE << <<xu, yu>>, <<xs, ys>> >>]

Batch(c, s, k, batch_size) ==
    IF c = "IOMOVarNVKM" THEN BatchIO(s, k, batch_size) ELSE BatchMO(s, k, batch_size)

\* the batch_size and the key the batching statements of an iteration can
\* run with: a caller's key after any number of key = split(key, 2)[1]
BatchCalls ==
    [batch_size : 0..MaxBatch,
     key : {KeyIter1(PRNGKey(seed), n) :
               seed \in {1, 304}, n \in 0..(MaxIts * (NumOutputs + 1))}]

\* lines 585-597 and 974-995 on their own: the minibatch of one iteration
DrawBatch ==
    /\ pc = "constructed"
    /\ sq \in BatchCalls
    /\ sres = None
    /\ sres' = Some(Batch(cls, self, sq.key, sq.batch_size))
    /\ UNCHANGED <<cls, self, pc, call, key, it, dpars_argnum, bound_arg, opt_state,
                   evals, ret, outcome, file, loaded, sq>>

\* lines 616-617: setattr(self, k, bound_arg[i]) for every k of std_fit
WriteBack(c, s, barg) ==
    [n \in DOMAIN s |->
        IF \E i \in 1..Len(std_fit(c)) : std_fit(c)[i] = n
        THEN barg[CHOOSE i \in 1..Len(std_fit(c)) : std_fit(c)[i] = n]
        ELSE s[n]]

\* a fit that keeps the GP objects it was called with
Rebuild_Skipped(c, s) == s

\* lines 620-622: the GPs are rebuilt from the fitted parameters
Rebuild(c, s) ==
    LET gps == construct_gps(c, s, s.lsu, s.lsgs, PRNGKey(0), Q_FRAC_DEFAULT,
                             Some(s.q_pars))
    IN  [s EXCEPT !.u_gp = gps.u_gp, !.g_gps = gps.g_gps]

\* the values fit can be called with
BatchSizes == {0, 1}
LearningRates == {1}
SampleCounts == {1}
FitKey == PRNGKey(1)
GradVals == {-1, 0, 1}

NoCall == [its |-> 0, lr |-> 0, batch_size |-> 0, N_s |-> 0, dont_fit |-> {}]
NoOpt == [x |-> <<>>, treedef |-> <<>>]

\* lines 560-582
FitStart ==
    /\ pc = "constructed"
    /\ file = None
    /\ \E its \in 0..MaxIts, lr \in LearningRates, bs \in BatchSizes,
          N_s \in SampleCounts, dont_fit \in SUBSET StdFitNames :
          /\ call' = [its |-> its, lr |-> lr, batch_size |-> bs,
                      N_s |-> N_s, dont_fit |-> dont_fit]
          /\ dpars_argnum' = DparsArgnum(cls, dont_fit)
          /\ bound_arg' = BoundArgInit(cls, self)
          /\ opt_state' = opt_init(DparsInit(cls, self, dont_fit),
                                   DparsArgnum(cls, dont_fit))
    /\ key' = FitKey
    /\ it' = 0
    /\ pc' = "loop"
    /\ UNCHANGED <<cls, self, evals, ret, outcome, file, loaded, sq, sres>>

\* a NaN check that reports and goes on to the optimizer step
FitIterNaN_Continues ==
    /\ pc = "loop" /\ it < call.its
    /\ ~Raises(cls, self, BoundReads(cls))
    /\ \E g \in GradVals :
       LET b == Batch(cls, self, key, call.batch_size)
           barg == BoundArgUpdate(bound_arg, dpars_argnum, opt_state)
           grads == [k \in 1..Len(dpars_argnum) |->
                        FullLike(dpars_argnum[k], barg[dpars_argnum[k]], g)]
       IN  /\ key' = b.key
           /\ bound_arg' = barg
           /\ evals' = Append(evals, [data |-> b.data, args |-> barg,
                                      N_s |-> call.N_s, skey |-> b.skey,
                                      idxkeys |-> b.idxkeys, nan |-> TRUE])
           /\ opt_state' = opt_update(call.lr, it, grads, opt_state)
    /\ it' = it + 1
    /\ UNCHANGED <<cls, self, pc, call, dpars_argnum, ret, outcome, file, loaded,
                   sq, sres>>

\* a NaN return that hands back the parameters the optimizer started from
FitIterNaN_ReturnsInit ==
    /\ pc = "loop" /\ it < call.its
    /\ ~Raises(cls, self, BoundReads(cls))
    /\ LET b == Batch(cls, self, key, call.batch_size)
           barg == BoundArgUpdate(bound_arg, dpars_argnum, opt_state)
       IN  /\ key' = b.key
           /\ bound_arg' = barg
           /\ evals' = Append(evals, [data |-> b.data, args |-> barg,
                                      N_s |-> call.N_s, skey |-> b.skey,
                                      idxkeys |-> b.idxkeys, nan |-> TRUE])
    /\ ret' = Some(DparsInit(cls, self, call.dont_fit))
    /\ outcome' = "Diverged"
    /\ pc' = "done"
    /\ UNCHANGED <<cls, self, call, it, dpars_argnum, opt_state, file, loaded, sq, sres>>

\* lines 584-605: an iteration whose objective value is NaN
FitIterNaN ==
    /\ pc = "loop" /\ it < call.its
    /\ ~Raises(cls, self, BoundReads(cls))
    /\ LET b == Batch(cls, self, key, call.batch_size)
           barg == BoundArgUpdate(bound_arg, dpars_argnum, opt_state)
       IN  /\ key' = b.key
           /\ bound_arg' = barg
           /\ evals' = Append(evals, [data |-> b.data, args |-> barg,
                                      N_s |-> call.N_s, skey |-> b.skey,
                                      idxkeys |-> b.idxkeys, nan |-> TRUE])
    /\ ret' = Some(get_params(opt_state))
    /\ outcome' = "Diverged"
    /\ pc' = "done"
    /\ UNCHANGED <<cls, self, call, it, dpars_argnum, opt_state, file, loaded, sq, sres>>

\* lines 584-610: an iteration whose objective value is a number
FitIterStep ==
    /\ pc = "loop" /\ it < call.its
    /\ ~Raises(cls, self, BoundReads(cls))
    /\ \E g \in GradVals :
       LET b == Batch(cls, self, key, call.batch_size)
           barg == BoundArgUpdate(bound_arg, dpars_argnum, opt_state)
           grads == [k \in 1..Len(dpars_argnum) |->
                        FullLike(dpars_argnum[k], barg[dpars_argnum[k]], g)]
       IN  /\ key' = b.key
           /\ bound_arg' = barg
           /\ evals' = Append(evals, [data |-> b.data, args |-> barg,
                                      N_s |-> call.N_s, skey |-> b.skey,
                                      idxkeys |-> b.idxkeys, nan |-> FALSE])
           /\ opt_state' = opt_update(call.lr, it, grads, opt_state)
    /\ it' = it + 1
    /\ UNCHANGED <<cls, self, pc, call, dpars_argnum, ret, outcome, file, loaded,
                   sq, sres>>

\* lines 973-1001: tracing _compute_bound reads an attribute the object lacks
FitIterRaise ==
    /\ pc = "loop" /\ it < call.its
    /\ Raises(cls, self, BoundReads(cls))
    /\ key' = Batch(cls, self, key, call.batch_size).key
    /\ bound_arg' = BoundArgUpdate(bound_arg, dpars_argnum, opt_state)
    /\ outcome' = "Raised"
    /\ pc' = "done"
    /\ UNCHANGED <<cls, self, call, it, dpars_argnum, opt_state, evals, ret, file,
                   loaded, sq, sres>>

\* lines 612-622 and 1011-1019: the loop is over
FitFinish ==
    /\ pc = "loop" /\ it = call.its
    /\ LET barg == BoundArgUpdate(bound_arg, dpars_argnum, opt_state)
           s1 == WriteBack(cls, self, barg)
       IN  /\ bound_arg' = barg
           /\ IF Raises(cls, s1, FinishReads(cls))
              THEN /\ self' = s1
                   /\ outcome' = "Raised"
                   /\ ret' = ret
              ELSE /\ self' = Rebuild(cls, s1)
                   /\ outcome' = "Converged"
                   /\ ret' = Some(None)
    /\ pc' = "done"
    /\ UNCHANGED <<cls, call, key, it, dpars_argnum, opt_state, evals, file, loaded,
                   sq, sres>>

(***************************************************************************)
(* save, load_mo_model and load_io_model.                                  *)
(***************************************************************************)
SaveExcluded == {"q_of_v", "likelihood", "g_gps", "u_gps", "p_pars"}

save(s) == [k \in DOMAIN s \ SaveExcluded |-> s[k]]

load_mo_model(d) ==
    MOVarNVKM_init("MOVarNVKM",
        [zgs |-> d.zgs, zu |-> d.zu, data |-> d.data, q_pars_init |-> d.q_pars,
         N_basis |-> d.N_basis, ampgs |-> d.ampgs, noise |-> d.noise,
         alpha |-> d.alpha, lsgs |-> d.lsgs, lsu |-> d.lsu, ampu |-> d.ampu])

load_io_model(d) ==
    IOMOVarNVKM_init(
        [zgs |-> d.zgs, zu |-> d.zu, u_data |-> d.data[1], y_data |-> d.data[2],
         u_noise |-> d.u_noise, q_pars_init |-> d.q_pars,
         N_basis |-> d.N_basis, ampgs |-> d.ampgs, noise |-> d.noise,
         alpha |-> d.alpha, lsgs |-> d.lsgs, lsu |-> d.lsu, ampu |-> d.ampu])

NotLoaded == [error |-> "NotLoaded", obj |-> None]

Save ==
    /\ pc \in {"constructed", "done"}
    /\ file = None
    /\ file' = Some(save(self))
    /\ UNCHANGED <<cls, self, fitvars, loaded, sq, sres>>

Load ==
    /\ file # None
    /\ loaded = NotLoaded
    /\ loaded' = IF cls = "IOMOVarNVKM" THEN load_io_model(file[1])
                 ELSE load_mo_model(file[1])
    /\ UNCHANGED <<cls, self, fitvars, file, sq, sres>>

(***************************************************************************)
(* integrals.Full.I and integrals.Homogeneous.I: the value of the Volterra *)
(* integral of one filter, an array with one entry per (query time, sample *)
(* index), kept as the record of the arguments it was computed from.       *)
(***************************************************************************)
Full_I(t, zg, zu, thetag, betag, thetau, betau, wg, qg, wu, qu, ampg, ampu, alpha, pg, pu) ==
    [shape |-> <<Len(t), thetag.shape[1]>>,
     integral |-> [kind |-> "Full", t |-> t, zg |-> zg, zu |-> zu,
                   thetag |-> thetag, betag |-> betag, thetau |-> thetau,
                   betau |-> betau, wg |-> wg, qg |-> qg, wu |-> wu, qu |-> qu,
                   ampg |-> ampg, ampu |-> ampu, alpha |-> alpha, pg |-> pg,
                   pu |-> pu]]

Homogeneous_I(t, zg, zu, thetag, betag, thetau, betau, wg, qg, wu, qu, alpha, pg, pu) ==
    [shape |-> <<Len(t), thetag.shape[1]>>,
     integral |-> [kind |-> "Homogeneous", t |-> t, zg |-> zg, zu |-> zu,
                   thetag |-> thetag, betag |-> betag, thetau |-> thetau,
                   betau |-> betau, wg |-> wg, qg |-> qg, wu |-> wu, qu |-> qu,
                   ampg |-> SCALE, ampu |-> SCALE, alpha |-> alpha, pg |-> pg,
                   pu |-> pu]]

(***************************************************************************)
(* Arrays of samples.  An array is its shape and the bag of the terms      *)
(* summed into it; a term is a product of powers of scalars and of a power *)
(* of one integral.                                                        *)
(***************************************************************************)
zeros(shape) == [shape |-> shape, terms |-> EmptyBag]

Pow(base, exp) == [base |-> base, exp |-> exp]

\* factors[1] * ... * factors[n] * I ** ipow
Product(factors, I, ipow) ==
    [shape |-> I.shape,
     terms |-> SetToBag({[factors |-> factors, integral |-> I.integral,
                          ipow |-> ipow]})]

\* numpy broadcasting of two shapes of the same rank
Broadcast(sa, sb) ==
    [d \in 1..Len(sa) |-> IF sa[d] = 1 THEN sb[d] ELSE sa[d]]

\* a += b
PlusEq(a, b) == [shape |-> Broadcast(a.shape, b.shape), terms |-> a.terms (+) b.terms]

(***************************************************************************)
(* VarEQApproxGP._sample_vs and sample_qs.                                 *)
(***************************************************************************)
sample_vs(LC, mu, N_s, k) ==
    [dist |-> "multivariate_normal", key |-> k, mean |-> mu, factor |-> LC,
     jitter |-> JITTER, shape |-> <<N_s>>]

sample_qs(gp, mu, LC, amp, ls, basis_samps, Ns, k) ==
    [vs |-> sample_vs(LC, mu, Ns, k),
     amp |-> amp, ls |-> ls,
     LK |-> compute_covariances(gp.z, gp.noise, amp, ls).LKvv,
     basis |-> basis_samps]

(***************************************************************************)
(* MOVarNVKM._sample, SepHomogMOVarNVKM._sample and MOVarNVKM.sample.      *)
(***************************************************************************)
\* the exponent taken from the 0-based loop index
AmpExponent_LoopIndex(j) == j - 1

\* the exponent of ampgs[i][j] in the term of order j (the code's j + 1)
AmpExponent(j) == j

\* lines 481-498 and 798-818: the term filter (i, j) adds to the sum
FilterTerm(c, s, t, i, j, ampgs, lsgs, ampu, lsu, ub, qul, gb, qgl) ==
    IF c = "SepHomogMOVarNVKM"
    THEN Product(<<Pow(ampu, 1), Pow(ampgs[i][j], AmpExponent(j))>>,
                 Homogeneous_I(t, s.g_gps[i][j].z, s.u_gp.z,
                     [gb.thetas EXCEPT !.shape = <<gb.thetas.shape[1],
                                                   gb.thetas.shape[2]>>],
                     gb.betas, ub.thetas, ub.betas, gb.ws, qgl, ub.ws, qul,
                     s.alpha[i][j], l2p(lsgs[i][j]), l2p(lsu)),
                 j)
    ELSE Product(<<Pow(ampgs[i][j], AmpExponent(j))>>,
                 Full_I(t, s.g_gps[i][j].z, s.u_gp.z, gb.thetas, gb.betas,
                     ub.thetas, ub.betas, gb.ws, qgl, ub.ws, qul, SCALE, ampu,
                     s.alpha[i][j], l2p(lsgs[i][j]), l2p(lsu)),
                 1)

\* a loop that uses the keys it already has for the next filter
NextKeys_Kept(keys) == keys

\* line 466: keys = jrnd.split(keys[-1], 3)
NextKeys(keys) == split(keys[2], 3)

\* lines 465-499: the loop over the orders j, j+1, ... of output i
RECURSIVE OrderLoop(_, _, _, _, _)
OrderLoop(cx, i, j, keys, sampsi) ==
    IF j > cx.s.C[i] THEN [sampsi |-> sampsi, keys |-> keys]
    ELSE LET ks == NextKeys(keys)
             gp == cx.s.g_gps[i][j]
             gb == sample_basis(ks[0], cx.N_s, SCALE, cx.lsgs[i][j], gp.N_basis, gp.D)
             qgl == sample_qs(gp, cx.q_pars.mu_gs[i][j], cx.q_pars.LC_gs[i][j],
                              SCALE, cx.lsgs[i][j], gb, cx.N_s, ks[1])
         IN  OrderLoop(cx, i, j + 1, ks,
                 PlusEq(sampsi,
                        FilterTerm(cx.c, cx.s, cx.ts[i][1], i, j, cx.ampgs,
                                   cx.lsgs, cx.ampu, cx.lsu, cx.ub, cx.qul, gb, qgl)))

\* an output without query times that adds nothing to the list
NoTimesEntries_Skipped == <<>>

\* lines 461-463: what an output without query times adds to the list
NoTimesEntries == <<None>>

\* lines 460-501: the loop over the outputs i, i+1, ...
RECURSIVE OutputLoop(_, _, _)
OutputLoop(cx, i, keys) ==
    IF i > cx.s.O THEN <<>>
    ELSE IF cx.ts[i] = None THEN NoTimesEntries \o OutputLoop(cx, i + 1, keys)
    ELSE LET r == OrderLoop(cx, i, 1, keys, zeros(<<Len(cx.ts[i][1]), cx.N_s>>))
         IN  <<Some(r.sampsi)>> \o OutputLoop(cx, i + 1, r.keys)

\* lines 445-501 and 762-822
MO_sample(c, s, ts, q_pars, ampgs, lsgs, ampu, lsu, N_s, keys) ==
    LET ub == sample_basis(keys[0], N_s, ampu, lsu, s.u_gp.N_basis, s.u_gp.D)
        qul == sample_qs(s.u_gp, q_pars.mu_u, q_pars.LC_us, ampu, lsu, ub, N_s,
                         keys[1])
    IN  OutputLoop([c |-> c, s |-> s, ts |-> ts, q_pars |-> q_pars,
                    ampgs |-> ampgs, lsgs |-> lsgs, ampu |-> ampu, lsu |-> lsu,
                    N_s |-> N_s, ub |-> ub, qul |-> qul], 1, keys)

\* a sample that takes its key from a generator advanced by every call
sample_GlobalGenerator(c, s, ts, N_s, k) ==
    MO_sample(c, s, ts, s.q_pars, s.ampgs, s.lsgs, s.ampu, s.lsu, N_s,
              split(<< <<0, IF sres = None THEN 0 ELSE Len(sres[1])>> >>, 3))

\* lines 503-513
sample(c, s, ts, N_s, k) ==
    MO_sample(c, s, ts, s.q_pars, s.ampgs, s.lsgs, s.ampu, s.lsu, N_s, split(k, 3))

\* the query times a caller passes for one output: None or 1..MaxNt times
QueryTimes == {None} \cup {Some([m \in 1..n |-> m * SCALE]) : n \in 1..MaxNt}

SampleKeys == {PRNGKey(1), PRNGKey(304)}

NoSample == [ts |-> <<>>, N_s |-> 0, key |-> <<>>]

Sample ==
    /\ pc = "constructed"
    /\ sq # NoSample
    /\ sres = None
    /\ sres' = Some(sample(cls, self, sq.ts, sq.N_s, sq.key))
    /\ UNCHANGED <<cls, self, fitvars, file, loaded, sq>>

(***************************************************************************)
(* MOVarNVKM._KL and MOVarNVKM._compute_bound, kept as the record of what  *)
(* they compute from: for every GP the arguments of its _KL call, for      *)
(* every output the arguments of its likelihood call.                      *)
(***************************************************************************)
\* lines 406-409: gp.compute_covariances(amp, ls) and gp._KL(LC, mu, LK)
KLTerm(gp, LC, mu, amp, ls) ==
    [LC |-> LC, mu |-> mu, amp |-> amp, ls |-> ls,
     LK |-> compute_covariances(gp.z, gp.noise, amp, ls).LKvv]

\* lines 401-410
MO_KL(s, mu_u, mu_gs, LC_us, LC_gs, lsu, lsgs) ==
    [gs |-> [i \in 1..Len(s.g_gps) |-> [j \in 1..Len(s.g_gps[i]) |->
                KLTerm(s.g_gps[i][j], LC_gs[i][j], mu_gs[i][j], SCALE, lsgs[i][j])]],
     u  |-> KLTerm(s.u_gp, LC_us, mu_u, SCALE, lsu)]

\* lines 525-545
compute_bound(c, s, data, q_pars, ampgs, lsgs, ampu, lsu, noise, N_s, k) ==
    LET xs == data[1]
        ys == data[2]
        samples == MO_sample(c, s, [i \in 1..Len(xs) |-> Some(xs[i])], q_pars,
                             ampgs, lsgs, ampu, lsu, N_s, split(k, 3))
    IN  [KL |-> MO_KL(s, q_pars.mu_u, q_pars.mu_gs, q_pars.LC_us, q_pars.LC_gs,
                      lsu, lsgs),
         samples |-> samples,
         like |-> [i \in 1..s.O |->
                     [y |-> ys[i], samples |-> samples[i][1], noise |-> noise[i]]]]

\* line 601: the bound as the n-th grad_fn call of the fit call evaluates it
BoundOfEval(n) ==
    compute_bound(cls, self, evals[n].data, evals[n].args[1], evals[n].args[2],
                  evals[n].args[3], evals[n].args[4], evals[n].args[5],
                  evals[n].args[6], evals[n].N_s, evals[n].skey)

(***************************************************************************)
(* VarEQApproxGP.sample: the draws it makes and what it combines them      *)
(* with.                                                                   *)
(***************************************************************************)
\* lines 254-268 and 144-174
GP_sample(gp, t, Ns, k) ==
    [shape |-> <<Len(t), Ns>>, t |-> t, z |-> gp.z,
     vs |-> sample_vs(gp.LC, gp.mu, Ns, k),
     basis |-> sample_basis(k, Ns, gp.amp, gp.ls, gp.N_basis, gp.D),
     LKvv |-> compute_covariances(gp.z, gp.noise, gp.amp, gp.ls).LKvv]

\* the query points of a GP of dimension 1
QueryPoints == [m \in 1..MaxNt |-> <<m * SCALE>>]

\* the three sampling calls, made with the arguments sq on the model
SamplingCalls ==
    [basis |-> sample_basis(sq.key, sq.N_s, self.ampu, self.lsu,
                            self.u_gp.N_basis, self.u_gp.D),
     gp    |-> GP_sample(self.u_gp, QueryPoints, sq.N_s, sq.key),
     model |-> sample(cls, self, sq.ts, sq.N_s, sq.key)]

CallOnce ==
    /\ pc = "constructed"
    /\ sq # NoSample
    /\ sres = None
    /\ sres' = Some(<<SamplingCalls>>)
    /\ UNCHANGED <<cls, self, fitvars, file, loaded, sq>>

CallAgain ==
    /\ pc = "constructed"
    /\ sres # None
    /\ Len(sres[1]) = 1
    /\ sres' = Some(Append(sres[1], SamplingCalls))
    /\ UNCHANGED <<cls, self, fitvars, file, loaded, sq>>

(***************************************************************************)
(* The dimension checks of the GP classes.  Here an array is its shape:    *)
(* <<n>> for a 1-D array of n points, <<n, d>> for a 2-D one.              *)
(***************************************************************************)
\* lines 72-82 and 179-185: the try statement.  shape[1] of a 1-D array is
\* an IndexError, handled by reshaping and asserting D == 1; that assert is
\* raised inside the handler, out of reach of the except AssertionError.
CheckDim(shape, D) ==
    IF Len(shape) < 2
    THEN IF D = 1 THEN Return(<<shape[1], 1>>) ELSE Raise("AssertionError")
    ELSE IF shape[2] = D THEN Return(shape) ELSE Raise("ValueError")

\* lines 27-84: EQApproxGP.__init__, z None or an array
EQApproxGP_init(z, D) ==
    IF z = None THEN Return([z |-> None, D |-> D])
    ELSE LET chk == CheckDim(z[1], D)
         IN  IF chk.error # "" THEN chk
             ELSE Return([z |-> Some(chk.obj[1]), D |-> D])

\* lines 176-192: EQApproxGP.sample, returning the shape of the samples
EQApproxGP_sample(t, D, Ns) ==
    LET chk == CheckDim(t, D)
    IN  IF chk.error # "" THEN chk
        ELSE Return([t |-> chk.obj[1], samples |-> <<chk.obj[1][1], Ns>>])

\* lines 196-225: VarEQApproxGP.__init__ stores z as given.  Without mu and
\* LC it draws mu from the prior at z, where jnp.dot(theta, t) (line 115)
\* needs the points of a 2-D z to have D coordinates.
VarEQApproxGP_init(z, D, given) ==
    IF ~given /\ Len(z) = 2 /\ z[2] # D THEN Raise("TypeError")
    ELSE Return([z |-> Some(z), D |-> D])

Shapes ==
    {<<n>> : n \in 1..NumInducing}
    \cup {<<n, d>> : n \in 1..NumInducing, d \in 1..MaxD}

\* the constructor and sample calls under study
GPCalls ==
    [class : {"EQApproxGP"}, op : {"init"}, a : {None} \cup {Some(x) : x \in Shapes},
     D : 1..MaxD, given : {FALSE}]
    \cup [class : {"EQApproxGP"}, op : {"sample"}, a : {Some(x) : x \in Shapes},
          D : 1..MaxD, given : {FALSE}]
    \cup [class : {"VarEQApproxGP"}, op : {"init"}, a : {Some(x) : x \in Shapes},
          D : 1..MaxD, given : BOOLEAN]

GPCall ==
    /\ pc = "constructed"
    /\ sq # NoSample
    /\ sres = None
    /\ sres' = Some(IF sq.class = "VarEQApproxGP"
                    THEN VarEQApproxGP_init(sq.a[1], sq.D, sq.given)
                    ELSE IF sq.op = "init" THEN EQApproxGP_init(sq.a, sq.D)
                    ELSE EQApproxGP_sample(sq.a[1], sq.D, 1))
    /\ UNCHANGED <<cls, self, fitvars, file, loaded, sq>>

(***************************************************************************)
(* MOVarNVKM.predict.  jnp.mean and jnp.var along an axis are kept as the   *)
(* record of what they were applied to.                                    *)
(***************************************************************************)
mean(a, axis) ==
    [op |-> "mean", axis |-> axis, of |-> a,
     shape |-> [d \in 1..(Len(a.shape) - 1) |->
                  IF d < axis + 1 THEN a.shape[d] ELSE a.shape[d + 1]]]

var(a, axis) ==
    [op |-> "var", axis |-> axis, of |-> a,
     shape |-> [d \in 1..(Len(a.shape) - 1) |->
                  IF d < axis + 1 THEN a.shape[d] ELSE a.shape[d + 1]]]

\* array + scalar
PlusScalar(a, x) == [op |-> "+", left |-> a, right |-> x, shape |-> a.shape]

\* a noise index that counts only the outputs that were sampled
NoiseIndex_Compacted(samps, i) == Cardinality({h \in 1..i : samps[h] # None})

\* lines 519-522: the i of enumerate(samps)
NoiseIndex(samps, i) == i

\* lines 515-523
predict(c, s, ts, N_s, k) ==
    LET samps == sample(c, s, ts, N_s, k)
    IN  <<[i \in 1..Len(samps) |->
              IF samps[i] # None THEN Some(mean(samps[i][1], 1)) ELSE samps[i]],
          [i \in 1..Len(samps) |->
              IF samps[i] # None
              THEN Some(PlusScalar(var(samps[i][1], 1),
                                   Pow(s.noise[NoiseIndex(samps, i)], 2)))
              ELSE samps[i]]>>

Predict ==
    /\ pc = "constructed"
    /\ sq # NoSample
    /\ sres = None
    /\ sres' = Some(predict(cls, self, sq.ts, sq.N_s, sq.key))
    /\ UNCHANGED <<cls, self, fitvars, file, loaded, sq>>

(***************************************************************************)
(* The value of the bound.  A number here is exact: the record             *)
(* [num, den, ln2] stands for  (num / den + ln2 * log(2)) / 2,  den > 0,   *)
(* which holds every value _KL takes on integer factors whose diagonal     *)
(* entries are powers of two.                                              *)
(***************************************************************************)
QInt(k) == [num |-> 2 * k, den |-> 1, ln2 |-> 0]

QAdd(a, b) ==
    [num |-> a.num * b.den + b.num * a.den, den |-> a.den * b.den,
     ln2 |-> a.ln2 + b.ln2]

QNeg(a) == [a EXCEPT !.num = -a.num, !.ln2 = -a.ln2]

\* log(2) is irrational: two numbers are equal iff both parts are
QEq(a, b) == a.num * b.den = b.num * a.den /\ a.ln2 = b.ln2

\* 0.6931 < log(2) < 0.6932
Ln2Lo == 6931
Ln2Hi == 6932
Ln2Den == 10000

\* a < 0, decided with the bounds on log(2)
QNegative(a) ==
    IF a.ln2 <= 0 THEN a.num * Ln2Den + a.ln2 * Ln2Lo * a.den < 0
    ELSE a.num * Ln2Den + a.ln2 * Ln2Hi * a.den < 0

\* a > 0, decided with the bounds on log(2)
QPositive(a) == QNegative(QNeg(a))

QLess(a, b) == QNegative(QAdd(a, QNeg(b)))

RECURSIVE QSum(_)
QSum(seq) == IF seq = <<>> THEN QInt(0) ELSE QAdd(seq[1], QSum(Tail(seq)))

\* jnp.log of a power of two, in units of log(2)
Log2(x) == CHOOSE k \in 0..8 : 2 ^ k = x

\* the product of the first a diagonal entries of L
RECURSIVE DiagProd(_, _)
DiagProd(L, a) == IF a = 0 THEN 1 ELSE L[a][a] * DiagProd(L, a - 1)

\* forward substitution  L x = b:  x[a] = ForwardSolve(L, b)[a] / DiagProd(L, a)
ForwardSolve(L, b) ==
    LET X[a \in 1..Len(L)] ==
            b[a] * DiagProd(L, a - 1)
            - SumTo([c \in 1..(a - 1) |->
                        L[a][c] * X[c] * (DiagProd(L, a - 1) \div DiagProd(L, c))],
                    a - 1)
    IN  X

\* b^T (L L^T)^-1 b  =  |L^-1 b|^2, as a numerator over DiagProd(L, M)^2
SolveSqNorm(L, b) ==
    LET M == Len(L)
        X == ForwardSolve(L, b)
    IN  SumTo([a \in 1..M |->
                  (X[a] * (DiagProd(L, M) \div DiagProd(L, a)))
                  * (X[a] * (DiagProd(L, M) \div DiagProd(L, a)))], M)

Column(A, b) == [a \in 1..Len(A) |-> A[a][b]]

\* a _KL that leaves out the term 0.5 * LC.shape[0]
VarEQ_KL_NoDimension(LC, mu, LK) ==
    LET M == Len(LC)
        den == DiagProd(LK, M) * DiagProd(LK, M)
        quad == SolveSqNorm(LK, mu)
        trace == SumTo([b \in 1..M |-> SolveSqNorm(LK, Column(LC, b))], M)
    IN  [num |-> -(quad + trace), den |-> den,
         ln2 |-> SumTo([a \in 1..M |-> Log2(LC[a][a])], M)
                 - SumTo([a \in 1..M |-> Log2(LK[a][a])], M)]

\* lines 227-237: VarEQApproxGP._KL
VarEQ_KL(LC, mu, LK) ==
    LET M == Len(LC)
        den == DiagProd(LK, M) * DiagProd(LK, M)
        quad == SolveSqNorm(LK, mu)
        trace == SumTo([b \in 1..M |-> SolveSqNorm(LK, Column(LC, b))], M)
        mt == [num |-> -(quad + trace), den |-> den, ln2 |-> 0]
        st == [num |-> 0, den |-> 1,
               ln2 |-> SumTo([a \in 1..M |-> Log2(LC[a][a])], M)
                       - SumTo([a \in 1..M |-> Log2(LK[a][a])], M)]
    IN  QAdd(QAdd(mt, st), [num |-> M, den |-> 1, ln2 |-> 0])

\* lines 401-410: MOVarNVKM._KL, with the prior factor LK of every GP given
MO_KL_value(mu_u, mu_gs, LC_us, LC_gs, LKu, LK_gs) ==
    QAdd(QSum([n \in 1..Len(LC_gs) |-> VarEQ_KL(LC_gs[n], mu_gs[n], LK_gs[n])]),
         VarEQ_KL(LC_us, mu_u, LKu))

\* lines 542-545: -(KL + like), like the sum of the outputs' likelihoods
bound_value(KL, likes) ==
    QNeg(QAdd(KL, QSum([i \in 1..Len(likes) |-> QInt(likes[i])])))

\* the factors a GP with M inducing points is evaluated on: lower-triangular,
\* diagonal entries 1 or 2, all entries below the diagonal 0 or all of them 1
Factors(M) ==
    {[a \in 1..M |-> [b \in 1..M |->
          IF a = b THEN dg[a] ELSE IF b < a THEN o ELSE 0]] :
      dg \in [1..M -> {1, 2}], o \in {0, 1}}

Means(M) == [1..M -> {0, 1}]

\* a GP as _KL sees it: its LC, its mu and its prior factor LK
GPValues(M) == [LC : Factors(M), mu : Means(M), LK : Factors(M)]

\* the bound of a model with one output of one order: the input-process GP
\* u, the filter GP g and the value of the output's likelihood
KLInputs ==
    [u : UNION {GPValues(M) : M \in 1..MaxM},
     g : {gp \in GPValues(1) : gp.mu[1] = 1 /\ gp.LK[1][1] = 1},
     like : {-1, 1}]

EvalBound ==
    /\ pc = "constructed"
    /\ sq # NoSample
    /\ sres = None
    /\ LET KL == MO_KL_value(sq.u.mu, <<sq.g.mu>>, sq.u.LC, <<sq.g.LC>>,
                             sq.u.LK, <<sq.g.LK>>)
       IN  sres' = Some([KL_u |-> VarEQ_KL(sq.u.LC, sq.u.mu, sq.u.LK),
                         KL |-> KL,
                         bound |-> bound_value(KL, <<sq.like>>)])
    /\ UNCHANGED <<cls, self, fitvars, file, loaded, sq>>

(***************************************************************************)
(* The life of one model object: constructed, fitted once, saved, loaded.  *)
(***************************************************************************)
Init ==
    /\ cls \in Classes
    /\ \E ci \in ConstructInputs : self = Construct(cls, ci[1], ci[2]).obj[1]
    /\ pc = "constructed"
    /\ call = NoCall
    /\ key = <<>>
    /\ it = 0
    /\ dpars_argnum = <<>>
    /\ bound_arg = <<>>
    /\ opt_state = NoOpt
    /\ evals = <<>>
    /\ ret = None
    /\ outcome = "None"
    /\ file = None
    /\ loaded = NotLoaded
    /\ sq = NoSample
    /\ sres = None

Next ==
    \/ FitStart
    \/ FitIterNaN
    \/ FitIterStep
    \/ FitIterRaise
    \/ FitFinish
    \/ Save
    \/ Load

Spec == Init /\ [][Next]_vars

(***************************************************************************)
(* One call of sample on a constructed model.                              *)
(***************************************************************************)
InitSample ==
    /\ cls \in {"MOVarNVKM", "SepHomogMOVarNVKM"}
    /\ \E ci \in ConstructInputs : self = Construct(cls, ci[1], ci[2]).obj[1]
    /\ pc = "constructed"
    /\ call = NoCall
    /\ key = <<>>
    /\ it = 0
    /\ dpars_argnum = <<>>
    /\ bound_arg = <<>>
    /\ opt_state = NoOpt
    /\ evals = <<>>
    /\ ret = None
    /\ outcome = "None"
    /\ file = None
    /\ loaded = NotLoaded
    /\ sq \in [ts : [1..NumOutputs -> QueryTimes], N_s : 1..MaxNs, key : SampleKeys]
    /\ sres = None

NextSample == Sample

SpecSample == InitSample /\ [][NextSample]_vars

(***************************************************************************)
(* One call of predict on a constructed model.                             *)
(***************************************************************************)
NextPredict == Predict

SpecPredict == InitSample /\ [][NextPredict]_vars

(***************************************************************************)
(* One evaluation of the KL terms and of the bound.                        *)
(***************************************************************************)
InitKL ==
    /\ cls = "MOVarNVKM"
    /\ \E ci \in ConstructInputs : self = Construct(cls, ci[1], ci[2]).obj[1]
    /\ pc = "constructed"
    /\ call = NoCall
    /\ key = <<>>
    /\ it = 0
    /\ dpars_argnum = <<>>
    /\ bound_arg = <<>>
    /\ opt_state = NoOpt
    /\ evals = <<>>
    /\ ret = None
    /\ outcome = "None"
    /\ file = None
    /\ loaded = NotLoaded
    /\ sq \in KLInputs
    /\ sres = None

NextKL == EvalBound

SpecKL == InitKL /\ [][NextKL]_vars

(***************************************************************************)
(* The sampling calls made twice with the same arguments.                  *)
(***************************************************************************)
NextTwice == CallOnce \/ CallAgain

SpecTwice == InitSample /\ [][NextTwice]_vars

(***************************************************************************)
(* One constructor or sample call of a GP class.                           *)
(***************************************************************************)
InitGP ==
    /\ cls = "MOVarNVKM"
    /\ \E ci \in ConstructInputs : self = Construct(cls, ci[1], ci[2]).obj[1]
    /\ pc = "constructed"
    /\ call = NoCall
    /\ key = <<>>
    /\ it = 0
    /\ dpars_argnum = <<>>
    /\ bound_arg = <<>>
    /\ opt_state = NoOpt
    /\ evals = <<>>
    /\ ret = None
    /\ outcome = "None"
    /\ file = None
    /\ loaded = NotLoaded
    /\ sq \in GPCalls
    /\ sres = None

NextGP == GPCall

SpecGP == InitGP /\ [][NextGP]_vars

(***************************************************************************)
(* The minibatch of one fit iteration on a constructed model.              *)
(***************************************************************************)
InitBatch ==
    /\ cls \in Classes
    /\ \E ci \in ConstructInputs : self = Construct(cls, ci[1], ci[2]).obj[1]
    /\ pc = "constructed"
    /\ call = NoCall
    /\ key = <<>>
    /\ it = 0
    /\ dpars_argnum = <<>>
    /\ bound_arg = <<>>
    /\ opt_state = NoOpt
    /\ evals = <<>>
    /\ ret = None
    /\ outcome = "None"
    /\ file = None
    /\ loaded = NotLoaded
    /\ sq \in BatchCalls
    /\ sres = None

NextBatch == DrawBatch

SpecBatch == InitBatch /\ [][NextBatch]_vars

(***************************************************************************)
(* The claims.                                                             *)
(***************************************************************************)
\* the values of the fitted parameters among the arguments of one evaluation
FittedOf(args) == [k \in 1..Len(dpars_argnum) |-> args[dpars_argnum[k]]]

\* C1: in fit, an objective value that is NaN ends the call at that
\* iteration without an error: it is the last evaluation of the call, the
\* optimizer state still holds the parameters that were evaluated (no step is
\* applied with that iteration's gradients, and the steps taken are those of
\* the earlier iterations only), and no stored parameter of the model has
\* been written.
C1_NaNEndsFitWithoutUpdate ==
    \A n \in 1..Len(evals) :
        evals[n].nan =>
            /\ n = Len(evals)
            /\ pc = "done"
            /\ outcome = "Diverged"
            /\ ret # None
            /\ it = n - 1
            /\ get_params(opt_state) = FittedOf(evals[n].args)
            /\ \A p \in 1..Len(std_fit(cls)) :
                   self[std_fit(cls)[p]] = evals[1].args[p]

C1_Witness ==
    /\ cls = "MOVarNVKM"
    /\ outcome = "Diverged"
    /\ Len(evals) = 2
    /\ get_params(opt_state) # FittedOf(evals[1].args)

\* C2 (as stated): when fit returns early on a NaN objective, the returned
\* snapshot holds the values of the last evaluation that was not NaN, the
\* values held before the optimizer step that led to the NaN.
C2_ReturnsPreDivergenceValues ==
    (outcome = "Diverged" /\ Len(evals) >= 2) =>
        ret[1] = FittedOf(evals[Len(evals) - 1].args)

\* C2 (amended): when fit returns early on a NaN objective, the returned
\* snapshot holds the optimizer's current values of the fitted parameters,
\* which are the values the objective was NaN at; every earlier evaluation
\* of the call was not NaN.
C2_ReturnsCurrentValues ==
    outcome = "Diverged" =>
        /\ ret # None
        /\ ret[1] = FittedOf(evals[Len(evals)].args)
        /\ evals[Len(evals)].nan
        /\ \A n \in 1..(Len(evals) - 1) : ~evals[n].nan

C2_Witness ==
    /\ outcome = "Diverged"
    /\ Len(evals) = 2
    /\ ret[1] # FittedOf(evals[1].args)

\* C3 (as stated): every call of fit, on any of the three classes, ends
\* either Converged after exactly its evaluations, each followed by a step,
\* or Diverged at the first NaN objective; it never ends by raising and
\* never runs more than its iterations.
C3_FitEndsConvergedOrDiverged ==
    /\ it <= call.its
    /\ pc = "done" =>
          \/ /\ outcome = "Converged"
             /\ it = call.its
             /\ Len(evals) = call.its
             /\ \A n \in 1..Len(evals) : ~evals[n].nan
          \/ /\ outcome = "Diverged"
             /\ Len(evals) = it + 1
             /\ \A n \in 1..Len(evals) : evals[n].nan <=> n = Len(evals)

\* C4 (as stated): every covariance factor of the variational parameters is
\* lower-triangular whenever it is passed to a bound evaluation and when it
\* is stored in the model.
AllLowerTriangular(q) ==
    /\ IsLowerTriangular(q.LC_us)
    /\ \A i \in 1..Len(q.LC_gs) : \A j \in 1..Len(q.LC_gs[i]) :
           IsLowerTriangular(q.LC_gs[i][j])

C4_FactorsStayLowerTriangular ==
    /\ AllLowerTriangular(self.q_pars)
    /\ \A n \in 1..Len(evals) : AllLowerTriangular(evals[n].args[1])

\* C5: a parameter named in dont_fit keeps its value through every step of
\* the fit call, the step that writes the model back included, and every
\* bound evaluation of the call is passed that value for it.
C5_ExcludedKeepValue ==
    [][(pc' \in {"loop", "done"} /\ outcome' # "Raised") =>
          \A p \in 1..Len(std_fit(cls)) :
              std_fit(cls)[p] \in call'.dont_fit =>
                  /\ self'[std_fit(cls)[p]] = self[std_fit(cls)[p]]
                  /\ Len(evals') > Len(evals) =>
                         evals'[Len(evals')].args[p] = self[std_fit(cls)[p]]]_vars

C5_Witness ==
    /\ outcome = "Converged"
    /\ call.dont_fit = {"lsu", "noise"}
    /\ Len(evals) = 2
    /\ get_params(opt_state) # FittedOf(evals[1].args)

\* C6 (as stated): loading what save wrote succeeds and gives a model with
\* the saved zgs, zu, data, q_pars, N_basis, ampgs, noise, alpha, lsgs, lsu
\* and ampu.
SavedFields == {"zgs", "zu", "data", "q_pars", "N_basis", "ampgs", "noise",
                "alpha", "lsgs", "lsu", "ampu"}

C6_LoadRestoresSavedModel ==
    loaded # NotLoaded =>
        /\ loaded.error = ""
        /\ \A n \in SavedFields : loaded.obj[1][n] = file[1][n]

\* C7 (as stated): the mapping save writes holds neither the filter GP
\* objects, nor the input-process GP object, nor the likelihood function,
\* nor a covariance cache.
C7_SaveLeavesOutDerivedState ==
    file # None =>
        DOMAIN file[1] \cap {"g_gps", "u_gp", "likelihood", "Kvv", "LKvv"} = {}

\* C8 (as stated): whenever no fit call has raised, q_pars holds the mu and
\* LC of the input-process GP object and of every filter GP object.
C8_QParsMirrorTheGPs ==
    outcome # "Raised" => self.q_pars = construct_q_pars(self.u_gp, self.g_gps)

\* C9: sample returns one entry per output, in output order: None for an
\* output whose query times are None, and for every other output i an array
\* of shape [Nt_i, Ns].
C9_OneEntryPerOutput ==
    sres # None =>
        /\ Len(sres[1]) = self.O
        /\ \A i \in 1..self.O :
               IF sq.ts[i] = None THEN sres[1][i] = None
               ELSE /\ sres[1][i] # None
                    /\ sres[1][i][1].shape = <<Len(sq.ts[i][1]), sq.N_s>>

C9_Witness ==
    /\ sres # None
    /\ cls = "MOVarNVKM"
    /\ sq.ts[1] = None
    /\ sq.ts[NumOutputs] # None
    /\ sres[1][NumOutputs] # None

\* C10: in MOVarNVKM.sample the array of an output i with query times is
\* the sum of exactly C_i terms, one for every order j: ampgs[i][j] to the
\* power j (the code's j + 1) times the Full integral computed at the
\* output's query times with the alpha, lengthscale and inducing inputs of
\* filter (i, j).
C10_SumOfOwnFilterTerms ==
    (sres # None /\ cls = "MOVarNVKM") =>
        \A i \in 1..self.O :
            sq.ts[i] # None =>
                LET terms == sres[1][i][1].terms
                IN  /\ BagCardinality(terms) = self.C[i]
                    /\ \A j \in 1..self.C[i] :
                           \E t \in BagToSet(terms) :
                               /\ CopiesIn(t, terms) = 1
                               /\ t.factors = <<Pow(self.ampgs[i][j], j)>>
                               /\ t.ipow = 1
                               /\ t.integral.kind = "Full"
                               /\ t.integral.t = sq.ts[i][1]
                               /\ t.integral.zg = self.zgs[i][j]
                               /\ t.integral.alpha = self.alpha[i][j]
                               /\ t.integral.pg = l2p(self.lsgs[i][j])
                               /\ t.integral.qg.ls = self.lsgs[i][j]
                               /\ t.integral.qg.vs.mean = self.q_pars.mu_gs[i][j]

C10_Witness ==
    /\ sres # None
    /\ cls = "MOVarNVKM"
    /\ sq.ts[1] # None
    /\ BagCardinality(sres[1][1][1].terms) = MaxOrder

\* C11: predict returns, for every output i with query times, the mean over
\* the sample axis of that output's samples and their variance over the
\* sample axis plus noise[i] squared, with the noise of the same output i
\* also when earlier outputs have no query times; for an output without
\* query times the mean entry and the variance entry are both None.
C11_PredictMeanAndNoisyVariance ==
    sres # None =>
        LET samps == sample(cls, self, sq.ts, sq.N_s, sq.key)
            means == sres[1][1]
            vars_ == sres[1][2]
        IN  /\ Len(means) = self.O
            /\ Len(vars_) = self.O
            /\ \A i \in 1..self.O :
                   IF sq.ts[i] = None
                   THEN means[i] = None /\ vars_[i] = None
                   ELSE /\ means[i] = Some(mean(samps[i][1], 1))
                        /\ means[i][1].shape = <<Len(sq.ts[i][1])>>
                        /\ vars_[i] # None
                        /\ vars_[i][1].op = "+"
                        /\ vars_[i][1].left = var(samps[i][1], 1)
                        /\ vars_[i][1].right = Pow(self.noise[i], 2)

C11_Witness ==
    /\ sres # None
    /\ sq.ts[1] = None
    /\ sq.ts[NumOutputs] # None
    /\ sres[1][2][NumOutputs] # None

\* KL(q || p) of q = N(mu, LC LC^T) from p = N(0, LK LK^T):
\* 0.5 * (tr(K^-1 C) + mu^T K^-1 mu - M) + sum log diag LK - sum log diag LC
GaussianKL(LC, mu, LK) ==
    LET M == Len(LC)
        den == DiagProd(LK, M) * DiagProd(LK, M)
        quad == SolveSqNorm(LK, mu)
        trace == SumTo([b \in 1..M |-> SolveSqNorm(LK, Column(LC, b))], M)
    IN  [num |-> quad + trace - M * den, den |-> den,
         ln2 |-> 2 * (SumTo([a \in 1..M |-> Log2(LK[a][a])], M)
                      - SumTo([a \in 1..M |-> Log2(LC[a][a])], M))]

\* C12 (as stated): the value of the bound is the sum of the KL divergences
\* KL(q || p) of the input-process GP and of the filter GP minus the sum of
\* the outputs' likelihoods.
C12_BoundIsKLMinusLikelihood ==
    sres # None =>
        QEq(sres[1].bound,
            QAdd(QAdd(GaussianKL(sq.u.LC, sq.u.mu, sq.u.LK),
                      GaussianKL(sq.g.LC, sq.g.mu, sq.g.LK)),
                 QNeg(QInt(sq.like))))

\* C13 (as stated): VarEQApproxGP.KL is >= 0 for every mean and every
\* lower-triangular factor with positive diagonal.
C13_KLNonNegative ==
    sres # None => ~QNegative(sres[1].KL_u)

\* C14: VarEQApproxGP.KL is 0 when mu is the zero vector and LC equals
\* LKvv, for every number M of inducing points.
C14_KLZeroAtPrior ==
    (sres # None /\ sq.u.LC = sq.u.LK /\ \A a \in 1..Len(sq.u.mu) : sq.u.mu[a] = 0)
        => QEq(sres[1].KL_u, QInt(0))

C14_Witness ==
    /\ sres # None
    /\ Len(sq.u.mu) = MaxM
    /\ sq.u.LC = sq.u.LK
    /\ sq.u.LC[MaxM][1] = 1
    /\ sq.u.LC[MaxM][MaxM] = 2
    /\ \A a \in 1..MaxM : sq.u.mu[a] = 0
    /\ sres[1].KL_u.num = 0

IsPrefix(p, k) == Len(p) <= Len(k) /\ SubSeq(k, 1, Len(p)) = p

BasisKeys(b) == {b.thetas.key, b.betas.key, b.ws.key}

\* the keys of the draws a term of an output's sum is computed from
TermKeys(t) ==
    {t.integral.thetag.key, t.integral.betag.key, t.integral.wg.key,
     t.integral.thetau.key, t.integral.betau.key, t.integral.wu.key,
     t.integral.qg.vs.key, t.integral.qu.vs.key}
    \cup BasisKeys(t.integral.qg.basis) \cup BasisKeys(t.integral.qu.basis)

\* the keys of the draws of a list returned by sample
SampleKeysUsed(samps) ==
    UNION {UNION {TermKeys(t) : t \in BagToSet(samps[i][1].terms)} :
           i \in {h \in 1..Len(samps) : samps[h] # None}}

\* C15: sample_basis, a GP's sample and the model's sample, called twice
\* with the same key, shapes and parameters, return the same value, and
\* every draw they make takes its key from the call's key by splitting.
C15_SamplingDeterministicInKey ==
    sres # None =>
        /\ Len(sres[1]) = 2 => sres[1][1] = sres[1][2]
        /\ \A n \in 1..Len(sres[1]) :
               \A k \in BasisKeys(sres[1][n].basis)
                        \cup BasisKeys(sres[1][n].gp.basis)
                        \cup {sres[1][n].gp.vs.key}
                        \cup SampleKeysUsed(sres[1][n].model) :
                   IsPrefix(sq.key, k)

C15_Witness ==
    /\ sres # None
    /\ Len(sres[1]) = 2
    /\ sq.key = PRNGKey(304)
    /\ sq.ts[1] # None
    /\ SampleKeysUsed(sres[1][2].model) # {}

\* the array's dimension disagrees with the declared D
Mismatch(shape, D) ==
    \/ Len(shape) = 2 /\ shape[2] # D
    \/ Len(shape) = 1 /\ D # 1

\* C16 (as stated): EQApproxGP.__init__ with inducing inputs and
\* EQApproxGP.sample with query points raise ValueError in every mismatch
\* case, a 2-D array whose second dimension is not D and a 1-D array when D
\* is not 1; a 1-D array with D = 1 is accepted as a column.
C16_MismatchRaisesValueError ==
    (sres # None /\ sq.class = "EQApproxGP" /\ sq.a # None) =>
        /\ Mismatch(sq.a[1], sq.D) => sres[1].error = "ValueError"
        /\ (Len(sq.a[1]) = 1 /\ sq.D = 1) =>
               /\ sres[1].error = ""
               /\ sq.op = "init" => sres[1].obj[1].z = Some(<<sq.a[1][1], 1>>)
               /\ sq.op = "sample" => sres[1].obj[1].t = <<sq.a[1][1], 1>>

\* C17 (as stated): every GP object a constructor returns, base or
\* variational, has z None (base only) or a 2-D z whose second dimension is
\* the GP's D.
C17_ConstructedGPMatchesD ==
    (sres # None /\ sq.op = "init" /\ sres[1].error = "") =>
        LET gp == sres[1].obj[1]
        IN  \/ sq.class = "EQApproxGP" /\ gp.z = None
            \/ gp.z # None /\ Len(gp.z[1]) = 2 /\ gp.z[1][2] = gp.D

\* the order j of the filter a term of an output's sum belongs to
OrderOf(t) == t.factors[Len(t.factors)].exp

\* C18 (as stated): in every bound evaluation of a fit call, the prior
\* factor of the input-process GP and of every filter GP is computed from
\* the same amplitude and lengthscale in the KL term and in the
\* canonical-weight solve of the sampling.
C18_SameFactorInKLAndSampling ==
    cls # "IOMOVarNVKM" =>
        \A n \in 1..Len(evals) :
            LET b == BoundOfEval(n)
            IN  \A i \in 1..Len(b.samples) :
                    \A t \in BagToSet(b.samples[i][1].terms) :
                        /\ t.integral.qu.amp = b.KL.u.amp
                        /\ t.integral.qu.ls = b.KL.u.ls
                        /\ t.integral.qu.LK = b.KL.u.LK
                        /\ t.integral.qg.amp = b.KL.gs[i][OrderOf(t)].amp
                        /\ t.integral.qg.ls = b.KL.gs[i][OrderOf(t)].ls
                        /\ t.integral.qg.LK = b.KL.gs[i][OrderOf(t)].LK

\* C19: in every state of a MOVarNVKM the filter GP of order j of every
\* output has input dimension j (the code's j + 1) and the lengthscale
\* lsgs[i][j] the model holds, and the input-process GP has input dimension
\* 1 and the lengthscale lsu the model holds.
C19_GPsFollowModelLengthscales ==
    cls = "MOVarNVKM" =>
        /\ self.u_gp.D = 1
        /\ self.u_gp.ls = self.lsu
        /\ Len(self.g_gps) = self.O
        /\ \A i \in 1..self.O :
               /\ Len(self.g_gps[i]) = self.C[i]
               /\ \A j \in 1..self.C[i] :
                      /\ self.g_gps[i][j].D = j
                      /\ self.g_gps[i][j].ls = self.lsgs[i][j]

C19_Witness ==
    /\ cls = "MOVarNVKM"
    /\ outcome = "Converged"
    /\ self.lsu # ArgLsu
    /\ self.lsgs[1][MaxOrder] # ArgLsgs[1][MaxOrder]
    /\ self.g_gps[1][MaxOrder].ls = self.lsgs[1][MaxOrder]

\* the keys of the four draws of the input-process GP in a term
UDrawKeys(t) ==
    {t.integral.thetau.key, t.integral.betau.key, t.integral.wu.key,
     t.integral.qu.vs.key}

\* the keys of the four draws of the term's filter GP
GDrawKeys(t) ==
    {t.integral.thetag.key, t.integral.betag.key, t.integral.wg.key,
     t.integral.qg.vs.key}

\* the terms of the sums of a list returned by sample, with their output
TermsOf(samps) ==
    {<<i, t>> : i \in {h \in 1..Len(samps) : samps[h] # None},
                t \in UNION {BagToSet(samps[h][1].terms) :
                                h \in {g \in 1..Len(samps) : samps[g] # None}}}
    \cap UNION {{<<i, t>> : t \in BagToSet(samps[i][1].terms)} :
                i \in {h \in 1..Len(samps) : samps[h] # None}}

\* C20: in one call of sample the three basis draws and the inducing-value
\* draw of the input-process GP and of every filter GP of every output with
\* query times use pairwise distinct keys of the split tree of the call's
\* key, also when some outputs have no query times; every term is computed
\* from the one set of draws of the input-process GP.
C20_FreshKeysPerGP ==
    sres # None =>
        \A p \in TermsOf(sres[1]) :
            /\ Cardinality(UDrawKeys(p[2])) = 4
            /\ Cardinality(GDrawKeys(p[2])) = 4
            /\ UDrawKeys(p[2]) \cap GDrawKeys(p[2]) = {}
            /\ \A k \in UDrawKeys(p[2]) \cup GDrawKeys(p[2]) :
                   IsPrefix(sq.key, k) /\ k # sq.key
            /\ BasisKeys(p[2].integral.qg.basis) \subseteq GDrawKeys(p[2])
            /\ BasisKeys(p[2].integral.qu.basis) \subseteq UDrawKeys(p[2])
            /\ \A q \in TermsOf(sres[1]) :
                   /\ UDrawKeys(q[2]) = UDrawKeys(p[2])
                   /\ q # p => GDrawKeys(q[2]) \cap GDrawKeys(p[2]) = {}

C20_Witness ==
    /\ sres # None
    /\ cls = "MOVarNVKM"
    /\ sq.ts[1] # None
    /\ sq.ts[NumOutputs] = None
    /\ Cardinality(TermsOf(sres[1])) = MaxOrder

\* C21: for every dont_fit, the k-th parameter handed to the optimizer is the
\* value of the k-th attribute that dont_fit does not name; every bound
\* evaluation is passed, in the argument position of that attribute, the
\* value the optimizer holds for it at that iteration; and when the loop has
\* run all its iterations that attribute is written with the optimizer's
\* final value of it, while every other parameter attribute keeps its value.
C21_OptimizedValuesKeepTheirPlace ==
    [][/\ (pc = "constructed" /\ pc' = "loop") =>
              /\ \A k \in 1..Len(dpars_argnum') :
                     /\ std_fit(cls)[dpars_argnum'[k]] \notin call'.dont_fit
                     /\ get_params(opt_state')[k] = self[std_fit(cls)[dpars_argnum'[k]]]
              /\ \A p \in 1..Len(std_fit(cls)) :
                     std_fit(cls)[p] \notin call'.dont_fit =>
                         Cardinality({k \in 1..Len(dpars_argnum') :
                                         dpars_argnum'[k] = p}) = 1
       /\ Len(evals') > Len(evals) =>
              \A k \in 1..Len(dpars_argnum) :
                  evals'[Len(evals')].args[dpars_argnum[k]] = get_params(opt_state)[k]
       /\ (pc = "loop" /\ pc' = "done" /\ it = call.its) =>
              \A p \in 1..Len(std_fit(cls)) :
                  LET ks == {k \in 1..Len(dpars_argnum) : dpars_argnum[k] = p}
                  IN  IF ks = {}
                      THEN self'[std_fit(cls)[p]] = self[std_fit(cls)[p]]
                      ELSE \A k \in ks :
                               self'[std_fit(cls)[p]] = get_params(opt_state)[k]]_vars

C21_Witness ==
    /\ outcome = "Converged"
    /\ call.dont_fit = {"q_pars", "ampu"}
    /\ Len(evals) = 2
    /\ self.lsu = get_params(opt_state)[3]
    /\ self.lsu # ArgLsu
    /\ self.lsu # self.ampu

\* C22: with a truthy batch_size the minibatch of every channel j has exactly
\* batch_size x values and batch_size y values, the m-th of them being
\* xs[j][k] and ys[j][k] for one index k of that channel's data, and no two
\* channels have their indices drawn with the same key; with a falsy
\* batch_size the minibatch of every channel is the channel's full data.
C22_MinibatchPairsAligned ==
    sres # None =>
        LET b   == sres[1]
            xy  == IF cls = "IOMOVarNVKM" THEN self.data[2] ELSE self.data
            bxy == IF cls = "IOMOVarNVKM" THEN b.data[2] ELSE b.data
        IN  \A j \in 1..self.O :
                IF sq.batch_size # 0
                THEN /\ Len(bxy[1][j]) = sq.batch_size
                     /\ Len(bxy[2][j]) = sq.batch_size
                     /\ \A m \in 1..sq.batch_size :
                            \E k \in 1..Len(xy[2][j]) :
                                /\ bxy[1][j][m] = xy[1][j][k]
                                /\ bxy[2][j][m] = xy[2][j][k]
                     /\ b.idxkeys[j] # None
                     /\ \A h \in 1..self.O : h # j => b.idxkeys[h] # b.idxkeys[j]
                ELSE /\ bxy[1][j] = xy[1][j]
                     /\ bxy[2][j] = xy[2][j]

C22_Witness ==
    /\ sres # None
    /\ cls = "MOVarNVKM"
    /\ sq.batch_size = 2
    /\ sres[1].data[2][1][1] # sres[1].data[2][1][2]
    /\ sres[1].data[2][2][1] = sres[1].data[2][2][2]

====
